---- MODULE Spec2Model ----
(***************************************************************************)
(* RC beam capacity calculator (src/app.py): get_tc and calculate.         *)
(*                                                                         *)
(* The program computes in Python floats (IEEE-754 binary64).  The model   *)
(* computes the same values: a float is a record [s, m, e] standing for    *)
(* s * m * 2^e, and every arithmetic operation is the exact operation      *)
(* followed by rounding to 53 significant bits, ties to even.  Exponent    *)
(* range is not limited (no overflow, no subnormals): the magnitudes of    *)
(* the modelled inputs stay far inside the binary64 range.                 *)
(***************************************************************************)
EXTENDS Integers, Sequences, TLC

(***************************************************************************)
(* Natural numbers of any size: little-endian sequences of limbs, no       *)
(* leading (most significant) zero limb; <<>> is zero.  The arithmetic is  *)
(* written as functions, whose arguments are values when the body is       *)
(* evaluated.                                                              *)
(***************************************************************************)
Base == 2^15

Bigs == Seq(Nat)

SmallBitLen[n \in Nat] == IF n = 0 THEN 0 ELSE 1 + SmallBitLen[n \div 2]

LimbBits == SmallBitLen[Base] - 1

Pow2[k \in Nat] == IF k = 0 THEN 1 ELSE 2 * Pow2[k - 1]

BFromNat[n \in Nat] ==
  IF n = 0 THEN <<>> ELSE <<n % Base>> \o BFromNat[n \div Base]

BTrim[a \in Bigs] ==
  IF a = <<>> THEN <<>>
  ELSE IF a[Len(a)] = 0 THEN BTrim[SubSeq(a, 1, Len(a) - 1)] ELSE a

Rest(a) == IF a = <<>> THEN <<>> ELSE Tail(a)
Low(a) == IF a = <<>> THEN 0 ELSE Head(a)

\* a + b + c
BAddC[a \in Bigs, b \in Bigs, c \in Nat] ==
  IF a = <<>> /\ b = <<>> THEN (IF c = 0 THEN <<>> ELSE <<c>>)
  ELSE <<(Low(a) + Low(b) + c) % Base>>
       \o BAddC[Rest(a), Rest(b), (Low(a) + Low(b) + c) \div Base]

BAdd(a, b) == BAddC[a, b, 0]

\* a - b - c for a >= b + c, untrimmed
BSubC[a \in Bigs, b \in Bigs, c \in Nat] ==
  IF a = <<>> THEN <<>>
  ELSE IF Head(a) - Low(b) - c < 0
       THEN <<Head(a) - Low(b) - c + Base>> \o BSubC[Tail(a), Rest(b), 1]
       ELSE <<Head(a) - Low(b) - c>> \o BSubC[Tail(a), Rest(b), 0]

BSub(a, b) == BTrim[BSubC[a, b, 0]]

\* -1, 0, 1 as a < b, a = b, a > b, from limb i down, for Len(a) = Len(b)
BCmpAt[a \in Bigs, b \in Bigs, i \in Nat] ==
  IF i = 0 THEN 0
  ELSE IF a[i] < b[i] THEN -1
  ELSE IF a[i] > b[i] THEN 1
  ELSE BCmpAt[a, b, i - 1]

BCmp[a \in Bigs, b \in Bigs] ==
  IF Len(a) < Len(b) THEN -1
  ELSE IF Len(a) > Len(b) THEN 1
  ELSE BCmpAt[a, b, Len(a)]

\* a * s + c for one limb s
BMulSmall[a \in Bigs, s \in Nat, c \in Nat] ==
  IF a = <<>> THEN (IF c = 0 THEN <<>> ELSE <<c>>)
  ELSE <<(Head(a) * s + c) % Base>>
       \o BMulSmall[Tail(a), s, (Head(a) * s + c) \div Base]

BMul[a \in Bigs, b \in Bigs] ==
  IF a = <<>> \/ b = <<>> THEN <<>>
  ELSE BAddC[BMulSmall[b, Head(a), 0], BTrim[<<0>> \o BMul[Tail(a), b]], 0]

\* quotient of a by one limb s > 0, from limb i down with remainder r
BDivSmallAt[a \in Bigs, s \in Nat, i \in Nat, r \in Nat] ==
  IF i = 0 THEN <<>>
  ELSE BDivSmallAt[a, s, i - 1, (r * Base + a[i]) % s]
       \o <<(r * Base + a[i]) \div s>>

BDivSmall(a, s) == BTrim[BDivSmallAt[a, s, Len(a), 0]]

Zeros(n) == [i \in 1..n |-> 0]

BShl[a \in Bigs, k \in Nat] ==
  IF a = <<>> THEN <<>>
  ELSE Zeros(k \div LimbBits) \o BMulSmall[a, Pow2[k % LimbBits], 0]

BShr[a \in Bigs, k \in Nat] ==
  IF k \div LimbBits >= Len(a) THEN <<>>
  ELSE BDivSmall(SubSeq(a, k \div LimbBits + 1, Len(a)), Pow2[k % LimbBits])

BitLen[a \in Bigs] ==
  IF a = <<>> THEN 0 ELSE (Len(a) - 1) * LimbBits + SmallBitLen[a[Len(a)]]

BOdd(a) == a # <<>> /\ a[1] % 2 = 1

\* number of trailing zero bits of a # 0
SmallTz[n \in Nat] == IF n % 2 = 1 THEN 0 ELSE 1 + SmallTz[n \div 2]

BTz[a \in Bigs] ==
  IF Head(a) = 0 THEN LimbBits + BTz[Tail(a)] ELSE SmallTz[Head(a)]

(***************************************************************************)
(* Python floats.  [s |-> -1 | 0 | 1, m |-> odd natural, e |-> exponent]   *)
(* is s * m * 2^e; zero is [s |-> 0, m |-> <<>>, e |-> 0].  The form is    *)
(* canonical, so two floats are equal iff their records are.               *)
(***************************************************************************)
Precision == 53

Signs == {-1, 0, 1}

Floats == [s : Signs, m : Bigs, e : Int]

FZero == [s |-> 0, m |-> <<>>, e |-> 0]

Canon[s \in Signs, n \in Bigs, e \in Int] ==
  IF n = <<>> \/ s = 0 THEN FZero
  ELSE [s |-> s, m |-> BShr[n, BTz[n]], e |-> e + BTz[n]]

\* s * q * 2^e, one more when the part r cut off, of which half is one half,
\* rounds up: above half, or at half with something beyond it (sticky) or
\* with q odd
RoundUp[s \in Signs, q \in Bigs, c \in Signs, e \in Int, sticky \in BOOLEAN] ==
  IF c > 0 \/ (c = 0 /\ (sticky \/ BOdd(q)))
  THEN Canon[s, BAddC[q, <<>>, 1], e] ELSE Canon[s, q, e]

RoundCut[s \in Signs, n \in Bigs, q \in Bigs, sh \in Nat, e \in Int, t \in BOOLEAN] ==
  RoundUp[s, q, BCmp[BSub(n, BShl[q, sh]), BShl[<<1>>, sh - 1]], e + sh, t]

\* s * (n + f) * 2^e rounded to Precision bits, ties to even, where f is a
\* fraction in (0,1) when sticky and 0 otherwise
Round[s \in Signs, n \in Bigs, e \in Int, sticky \in BOOLEAN] ==
  IF BitLen[n] <= Precision THEN Canon[s, n, e]
  ELSE RoundCut[s, n, BShr[n, BitLen[n] - Precision], BitLen[n] - Precision,
                e, sticky]

\* int -> float
FromInt[n \in Int] ==
  IF n = 0 THEN FZero
  ELSE IF n < 0 THEN Round[-1, BFromNat[-n], 0, FALSE]
  ELSE Round[1, BFromNat[n], 0, FALSE]

FNeg[x \in Floats] == [x EXCEPT !.s = -x.s]

FMul[x \in Floats, y \in Floats] ==
  Round[x.s * y.s, BMul[x.m, y.m], x.e + y.e, FALSE]

\* magnitudes: -1, 0, 1 as |x| < |y|, |x| = |y|, |x| > |y|, for x, y # 0
MagCmp[x \in Floats, y \in Floats] ==
  IF BitLen[x.m] + x.e < BitLen[y.m] + y.e THEN -1
  ELSE IF BitLen[x.m] + x.e > BitLen[y.m] + y.e THEN 1
  ELSE IF x.e >= y.e THEN BCmp[BShl[x.m, x.e - y.e], y.m]
  ELSE BCmp[x.m, BShl[y.m, y.e - x.e]]

FCmp[x \in Floats, y \in Floats] ==
  IF x.s # y.s THEN (IF x.s < y.s THEN -1 ELSE 1)
  ELSE IF x.s = 0 THEN 0
  ELSE x.s * MagCmp[x, y]

FLt(x, y) == FCmp[x, y] < 0
FLe(x, y) == FCmp[x, y] <= 0
FGt(x, y) == FCmp[x, y] > 0

\* sx * nx * 2^e + sy * ny * 2^e
AddAligned[sx \in Signs, nx \in Bigs, sy \in Signs, ny \in Bigs, e \in Int] ==
  IF sx = sy THEN Round[sx, BAddC[nx, ny, 0], e, FALSE]
  ELSE IF BCmp[nx, ny] = 0 THEN FZero
  ELSE IF BCmp[nx, ny] > 0 THEN Round[sx, BSub(nx, ny), e, FALSE]
  ELSE Round[sy, BSub(ny, nx), e, FALSE]

FAdd[x \in Floats, y \in Floats] ==
  IF x.s = 0 THEN y
  ELSE IF y.s = 0 THEN x
  ELSE IF x.e < y.e THEN AddAligned[x.s, x.m, y.s, BShl[y.m, y.e - x.e], x.e]
  ELSE AddAligned[x.s, BShl[x.m, x.e - y.e], y.s, y.m, y.e]

FSub[x \in Floats, y \in Floats] == FAdd[x, FNeg[y]]

\* n more bits of the quotient q of a division by b, where r2 < 2 * b is
\* twice the remainder so far: <<quotient, remainder>>
DivBits[q \in Bigs, r2 \in Bigs, b \in Bigs, n \in Nat] ==
  IF BCmp[r2, b] >= 0
  THEN IF n = 1 THEN <<BMulSmall[q, 2, 1], BSub(r2, b)>>
       ELSE DivBits[BMulSmall[q, 2, 1], BMulSmall[BSub(r2, b), 2, 0], b, n - 1]
  ELSE IF n = 1 THEN <<BMulSmall[q, 2, 0], r2>>
       ELSE DivBits[BMulSmall[q, 2, 0], BMulSmall[r2, 2, 0], b, n - 1]

RoundQuotient[s \in Signs, qr \in Seq(Bigs), e \in Int] ==
  Round[s, qr[1], e, qr[2] # <<>>]

\* sx * a * 2^ex / (sy * b * 2^ey) for a / b in (1/4, 1): the quotient is
\* taken to Precision + 3 bits
DivAligned[s \in Signs, a \in Bigs, b \in Bigs, e \in Int] ==
  RoundQuotient[s, DivBits[<<>>, BMulSmall[a, 2, 0], b, Precision + 3],
                e - (Precision + 3)]

\* x / y for y # 0
FDiv[x \in Floats, y \in Floats] ==
  IF x.s = 0 THEN FZero
  ELSE IF BitLen[x.m] >= BitLen[y.m]
  THEN DivAligned[x.s * y.s, x.m, BShl[y.m, BitLen[x.m] - BitLen[y.m] + 1],
                  x.e - y.e + (BitLen[x.m] - BitLen[y.m] + 1)]
  ELSE DivAligned[x.s * y.s, BShl[x.m, BitLen[y.m] - BitLen[x.m] - 1], y.m,
                  x.e - y.e - (BitLen[y.m] - BitLen[x.m] - 1)]

\* Python's min(a, b): b if b < a, else a; max(a, b): b if b > a, else a
FMin[x \in Floats, y \in Floats] == IF FLt(y, x) THEN y ELSE x
FMax[x \in Floats, y \in Floats] == IF FGt(y, x) THEN y ELSE x

\* a decimal literal num/den of the source text: the nearest float
Lit(num, den) == FDiv[FromInt[num], FromInt[den]]

\* math.pi = 884279719003555 * 2^-48
MathPi ==
  Canon[1, BAdd(BMul[BFromNat[884279719], BFromNat[1000000]], BFromNat[3555]),
        -48]

\* Python's None, and the str calculate returns as its error; both records,
\* so that either compares with a result dictionary
None == [type |-> "NoneType"]
InvalidDepthError == [type |-> "str", value |-> "Invalid depth"]

(***************************************************************************)
(* The IS 456 tables, in hundredths (tc_table, pt_range) and tenths        *)
(* (tc_max) of the source literals.                                        *)
(***************************************************************************)
Grades == {20, 25, 30, 35, 40}
SteelGrades == {415, 500}
LoadTypes == {"Point Load", "Two Point Load"}

tc_table_100 ==
  [fck \in Grades |->
     CASE fck = 20 -> <<28, 32, 36, 40, 45>>
       [] fck = 25 -> <<29, 33, 37, 41, 46>>
       [] fck = 30 -> <<30, 34, 38, 42, 47>>
       [] fck = 35 -> <<31, 35, 39, 43, 48>>
       [] fck = 40 -> <<32, 36, 40, 44, 49>>]

tc_table == [fck \in Grades |-> [i \in 1..5 |-> Lit(tc_table_100[fck][i], 100)]]

pt_range_100 == <<15, 25, 50, 75, 100>>

pt_range == [i \in 1..5 |-> Lit(pt_range_100[i], 100)]

tc_max_10 ==
  [fck \in Grades |->
     CASE fck = 20 -> 28 [] fck = 25 -> 31 [] fck = 30 -> 35
       [] fck = 35 -> 37 [] fck = 40 -> 40]

tc_max == [fck \in Grades |-> Lit(tc_max_10[fck], 10)]

(***************************************************************************)
(* numpy.interp(x, xp, fp) for a scalar x and increasing xp: fp[1] left of *)
(* xp[1], fp[n] right of xp[n], fp[j] at a breakpoint, and otherwise       *)
(* slope * (x - xp[j]) + fp[j] on the interval xp[j] < x < xp[j+1], each   *)
(* operation rounded on its own.                                           *)
(***************************************************************************)
FloatSeqs == Seq(Floats)

InterpSlope(xp, fp, j) ==
  FDiv[FSub[fp[j + 1], fp[j]], FSub[xp[j + 1], xp[j]]]

\* the interpolation measured from 0 instead of from the breakpoint
InterpValueFromZero(slope, x, xj, fj) == FAdd[FMul[slope, x], fj]

InterpValue(slope, x, xj, fj) == FAdd[FMul[slope, FSub[x, xj]], fj]

InterpAt[x \in Floats, xp \in FloatSeqs, fp \in FloatSeqs, j \in Nat] ==
  IF j = Len(xp) \/ xp[j] = x THEN fp[j]
  ELSE InterpValue(InterpSlope(xp, fp, j), x, xp[j], fp[j])

\* the interval of x: the last j with xp[j] <= x
InterpIndex[x \in Floats, xp \in FloatSeqs] ==
  CHOOSE j \in 1..Len(xp) :
    /\ FLe(xp[j], x)
    /\ j < Len(xp) => FLt(x, xp[j + 1])

Interp[x \in Floats, xp \in FloatSeqs, fp \in FloatSeqs] ==
  IF FLt(x, xp[1]) THEN fp[1]
  ELSE IF FGt(x, xp[Len(xp)]) THEN fp[Len(fp)]
  ELSE InterpAt[x, xp, fp, InterpIndex[x, xp]]

\* get_tc(pt, fck): pt = max(pt, 0.15); pt = min(pt, 1.0); interpolate
PtFloor == Lit(15, 100)
PtCeil == FromInt[1]

ClampPtLow(pt) == FMax[pt, PtFloor]
ClampPtHigh(pt) == FMin[pt, PtCeil]

get_tc(pt, fck) ==
  Interp[ClampPtHigh(ClampPtLow(pt)), pt_range, tc_table[fck]]

(***************************************************************************)
(* calculate(fck, fy, b, D, L, load_type, main_dia, main_count,            *)
(*           stirrup_dia, spacing)                                         *)
(***************************************************************************)
cover == 25
density == 25

F087 == Lit(87, 100)
F036 == Lit(36, 100)
F048 == Lit(48, 100)
F042 == Lit(42, 100)
F0138 == Lit(138, 1000)
F09 == Lit(9, 10)
F1000 == FromInt[1000]

\* the depth without the stirrup deducted
EffectiveDepthNoStirrup(D, stirrup_dia, main_dia) ==
  FSub[FromInt[D - cover], FDiv[FromInt[main_dia], FromInt[2]]]

\* d = D - cover - stirrup_dia - main_dia/2
EffectiveDepth(D, stirrup_dia, main_dia) ==
  FSub[FromInt[D - cover - stirrup_dia], FDiv[FromInt[main_dia], FromInt[2]]]

InvalidDepth(d) == FLe(d, FZero)

\* (math.pi/4)*(dia**2)*count
BarArea(dia, count) ==
  FMul[FMul[FDiv[MathPi, FromInt[4]], FromInt[dia * dia]], FromInt[count]]

\* xu = (0.87*fy*Ast)/(0.36*fck*b)
NeutralAxis(fy, Ast, fck, b) ==
  FDiv[FMul[FMul[F087, FromInt[fy]], Ast],
       FMul[FMul[F036, FromInt[fck]], FromInt[b]]]

XuMax(d) == FMul[F048, d]

\* the neutral axis left unclamped
ClampXuNone(xu, xu_max) == xu

ClampXu(xu, xu_max) == FMin[xu, xu_max]

\* Mu = 0.36*fck*b*xu*(d - 0.42*xu)
Moment(fck, b, xu, d) ==
  FMul[FMul[FMul[FMul[F036, FromInt[fck]], FromInt[b]], xu],
       FSub[d, FMul[F042, xu]]]

\* Mu_lim = 0.138*fck*b*d*d
MomentLimit(fck, b, d) ==
  FMul[FMul[FMul[FMul[F0138, FromInt[fck]], FromInt[b]], d], d]

ClampMu(Mu, Mu_lim) == FMin[Mu, Mu_lim]

\* the span taken as L + d
EffSpanSum(L, d) == FAdd[FromInt[L], d]

\* eff_span = min(L + d, L)
EffSpan(L, d) == FMin[FAdd[FromInt[L], d], FromInt[L]]

FlexFactor(load_type) == IF load_type = "Point Load" THEN 4 ELSE 6

\* W_flex = factor * Mu / eff_span
FlexLoad(load_type, Mu, eff_span) ==
  FDiv[FMul[FromInt[FlexFactor(load_type)], Mu], eff_span]

\* pt = 100*Ast/(b*d)
SteelRatio(Ast, b, d) ==
  FDiv[FMul[FromInt[100], Ast], FMul[FromInt[b], d]]

\* tau_v = V/(b*d) with V = W_flex/2
ShearForce(W_flex) == FDiv[W_flex, FromInt[2]]

ShearStress(V, b, d) == FDiv[V, FMul[FromInt[b], d]]

\* Vc = tc * b * d
ConcreteShear(tc, b, d) == FMul[FMul[tc, FromInt[b]], d]

\* Vs = 0.87*fy*Asv*d/spacing
StirrupShear(fy, Asv, d, spacing) ==
  FDiv[FMul[FMul[FMul[F087, FromInt[fy]], Asv], d], FromInt[spacing]]

\* W_shear = 2*Vu
ShearLoad(Vu) == FMul[FromInt[2], Vu]

\* the larger load taken as governing
GoverningLoadMax(W_flex, W_shear) == FMax[W_flex, W_shear]

\* Wu = min(W_flex, W_shear)
GoverningLoad(W_flex, W_shear) == FMin[W_flex, W_shear]

\* self_weight_kN_per_m(b, D) = density * (b/1000) * (D/1000)
self_weight_kN_per_m(b, D) ==
  FMul[FMul[FromInt[density], FDiv[FromInt[b], F1000]], FDiv[FromInt[D], F1000]]

\* sw = self_weight_kN_per_m(b, D) * (L/1000)
SelfWeight(b, D, L) ==
  FMul[self_weight_kN_per_m(b, D), FDiv[FromInt[L], F1000]]

\* the self weight (kN) subtracted from the load in N
NetLoadBeforeKN(Wu, sw) == FDiv[FSub[Wu, sw], F1000]

\* Wu_net = Wu/1000 - sw
NetLoad(Wu, sw) == FSub[FDiv[Wu, F1000], sw]

\* the classification without the 10% band
FailureModeNoBand(W_flex, W_shear) ==
  IF FLt(W_flex, W_shear) THEN "Flexural"
  ELSE IF FLt(W_shear, W_flex) THEN "Shear"
  ELSE "Combined"

\* the classification with the two labels exchanged
FailureModeSwapped(W_flex, W_shear) ==
  IF FLt(W_flex, FMul[F09, W_shear]) THEN "Shear"
  ELSE IF FLt(W_shear, FMul[F09, W_flex]) THEN "Flexural"
  ELSE "Combined"

FailureMode(W_flex, W_shear) ==
  IF FLt(W_flex, FMul[F09, W_shear]) THEN "Flexural"
  ELSE IF FLt(W_shear, FMul[F09, W_flex]) THEN "Shear"
  ELSE "Combined"

\* the two warning texts, in ASCII
ShearWarning == "tau_v exceeds tau_c,max -> unsafe section."
SelfWeightWarning == "Beam fails under self weight!"

\* the comparison the wrong way round
ShearUnsafeReversed(tau_v, tc_lim) == FGt(tc_lim, tau_v)

ShearUnsafe(tau_v, tc_lim) == FGt(tau_v, tc_lim)
NetFails(Wu_net) == FLe(Wu_net, FZero)

Warnings(tau_v, tc_lim, Wu_net) ==
  (IF ShearUnsafe(tau_v, tc_lim) THEN <<ShearWarning>> ELSE <<>>)
  \o (IF NetFails(Wu_net) THEN <<SelfWeightWarning>> ELSE <<>>)

\* the dictionary calculate returns
Result(l) ==
  [Wu_kN_gross |-> FDiv[l.Wu, F1000],
   Wu_kN_net   |-> l.Wu_net,
   Mu_kNm      |-> FDiv[l.Mu, FromInt[1000000]],
   Vu_kN       |-> FDiv[l.Vu, F1000],
   d_mm        |-> l.d,
   pt_percent  |-> l.pt,
   tau_v       |-> l.tau_v,
   tau_c       |-> l.tc,
   tau_c_max   |-> l.tc_lim,
   mode        |-> l.mode,
   warnings    |-> l.warnings]

(***************************************************************************)
(* The state machine.  One state holds one call of the program: which      *)
(* function, its arguments, and once it has returned its locals and its    *)
(* return value.  call.fn = "mode" stands for the failure-mode branch of   *)
(* calculate (lines 93-99) on a pair of loads of its own.                  *)
(***************************************************************************)
VARIABLES pc, call, locals, ret, prev

vars == <<pc, call, locals, ret, prev>>

\* the inputs drawn for calculate
DepthValues == {40, 41, 450, 600}
WidthValues == {150, 230}
SpanValues == {1000, 4000}
MainDiaValues == {12, 16}
StirrupDiaValues == {8}
SpacingValues == {150}
MaxMainCount == 3

\* the inputs drawn for get_tc: pt = k/100 for k in 0..MaxPtNum, the
\* resolution of pt_range
MaxPtNum == 120

\* the loads drawn for the failure-mode branch: 0..MaxLoad
MaxLoad == 12

CalcArgs ==
  [fck : Grades, fy : SteelGrades, b : WidthValues, D : DepthValues,
   L : SpanValues, load_type : LoadTypes, main_dia : MainDiaValues,
   main_count : 1..MaxMainCount, stirrup_dia : StirrupDiaValues,
   spacing : SpacingValues]

TcCall(fck, k) == [fn |-> "get_tc", fck |-> fck, k |-> k, pt |-> Lit(k, 100)]

Init ==
  /\ pc = "ready"
  /\ locals = None
  /\ ret = None
  /\ prev = None
  /\ \/ \E a \in CalcArgs : call = [fn |-> "calculate", args |-> a]
     \/ \E fck \in Grades : call = TcCall(fck, 0)
     \/ \E x \in 0..MaxLoad, y \in 0..MaxLoad :
          call = [fn |-> "mode", W_flex |-> FromInt[x], W_shear |-> FromInt[y]]

\* result, err = calculate(...): the statements of calculate in their
\* order, each local bound to the value assigned to it
Calculate ==
  /\ pc = "ready"
  /\ call.fn = "calculate"
  /\ pc' = "returned"
  /\ UNCHANGED <<call, prev>>
  /\ \E a \in {call.args} :
     \E d \in {EffectiveDepth(a.D, a.stirrup_dia, a.main_dia)} :
       IF InvalidDepth(d)
       THEN /\ locals' = [d |-> d]
            /\ ret' = <<None, InvalidDepthError>>
       ELSE
     \E Ast \in {BarArea(a.main_dia, a.main_count)} :
     \E Asv \in {BarArea(a.stirrup_dia, 2)} :
     \E xu_max \in {XuMax(d)} :
     \E xu \in {ClampXu(NeutralAxis(a.fy, Ast, a.fck, a.b), xu_max)} :
     \E Mu_lim \in {MomentLimit(a.fck, a.b, d)} :
     \E Mu \in {ClampMu(Moment(a.fck, a.b, xu, d), Mu_lim)} :
     \E eff_span \in {EffSpan(a.L, d)} :
     \E W_flex \in {FlexLoad(a.load_type, Mu, eff_span)} :
     \E pt \in {SteelRatio(Ast, a.b, d)} :
     \E tc \in {get_tc(pt, a.fck)} :
     \E tc_lim \in {tc_max[a.fck]} :
     \E V \in {ShearForce(W_flex)} :
     \E tau_v \in {ShearStress(V, a.b, d)} :
     \E Vc \in {ConcreteShear(tc, a.b, d)} :
     \E Vs \in {StirrupShear(a.fy, Asv, d, a.spacing)} :
     \E Vu \in {FAdd[Vc, Vs]} :
     \E W_shear \in {ShearLoad(Vu)} :
     \E Wu \in {GoverningLoad(W_flex, W_shear)} :
     \E sw \in {SelfWeight(a.b, a.D, a.L)} :
     \E Wu_net \in {NetLoad(Wu, sw)} :
     \E mode \in {FailureMode(W_flex, W_shear)} :
     \E warnings \in {Warnings(tau_v, tc_lim, Wu_net)} :
     \E l \in {[d |-> d, Ast |-> Ast, Asv |-> Asv, xu |-> xu,
               xu_max |-> xu_max, Mu |-> Mu, Mu_lim |-> Mu_lim,
               eff_span |-> eff_span, W_flex |-> W_flex, pt |-> pt,
               tc |-> tc, tc_lim |-> tc_lim, V |-> V, tau_v |-> tau_v,
               Vc |-> Vc, Vs |-> Vs, Vu |-> Vu, W_shear |-> W_shear,
               Wu |-> Wu, sw |-> sw, Wu_net |-> Wu_net, mode |-> mode,
               warnings |-> warnings]} :
       /\ locals' = l
       /\ ret' = <<Result(l), None>>

\* get_tc(pt, fck)
GetTc ==
  /\ pc = "ready"
  /\ call.fn = "get_tc"
  /\ ret' = get_tc(call.pt, call.fck)
  /\ pc' = "returned"
  /\ UNCHANGED <<call, locals, prev>>

\* the next call of get_tc, one step up in pt; prev keeps the last value
NextPt ==
  /\ pc = "returned"
  /\ call.fn = "get_tc"
  /\ call.k < MaxPtNum
  /\ call' = TcCall(call.fck, call.k + 1)
  /\ prev' = ret
  /\ ret' = None
  /\ pc' = "ready"
  /\ UNCHANGED locals

\* the same beam evaluated again under the other load type ("Calculate"
\* pressed after changing the load type only); prev keeps the W_flex of the
\* single point load
NextLoadType ==
  /\ pc = "returned"
  /\ call.fn = "calculate"
  /\ call.args.load_type = "Point Load"
  /\ ret[2] = None
  /\ call' = [call EXCEPT !.args.load_type = "Two Point Load"]
  /\ prev' = locals.W_flex
  /\ locals' = None
  /\ ret' = None
  /\ pc' = "ready"

\* the failure-mode branch on the drawn pair
Classify ==
  /\ pc = "ready"
  /\ call.fn = "mode"
  /\ ret' = FailureMode(call.W_flex, call.W_shear)
  /\ pc' = "returned"
  /\ UNCHANGED <<call, locals, prev>>

Next == Calculate \/ GetTc \/ NextPt \/ NextLoadType \/ Classify

Spec == Init /\ [][Next]_vars

(***************************************************************************)
(* Properties.  Returned(fn) is a state in which a call of fn has          *)
(* returned; Succeeded one in which calculate returned a result.           *)
(***************************************************************************)
Returned(fn) == pc = "returned" /\ call.fn = fn

Succeeded == Returned("calculate") /\ ret[2] = None

ResultKeys ==
  {"Wu_kN_gross", "Wu_kN_net", "Mu_kNm", "Vu_kN", "d_mm", "pt_percent",
   "tau_v", "tau_c", "tau_c_max", "mode", "warnings"}

Range(seq) == {seq[i] : i \in DOMAIN seq}

FAbs(x) == IF x.s < 0 THEN FNeg[x] ELSE x

\* twice D - 25 - stirrup_dia - main_dia/2, in integers
TwiceDepth(a) == 2 * a.D - 50 - 2 * a.stirrup_dia - a.main_dia

\* C1: every call of calculate has d = D - 25 - stirrup_dia - main_dia/2; with
\* d <= 0 it returns (None, "Invalid depth") and has computed nothing else;
\* with d > 0 it returns a result whose d_mm is d, and no error.  So no
\* result has d_mm <= 0, and exactly one of result and error is not None.
DepthContract ==
  Returned("calculate") =>
    /\ locals.d = Lit(TwiceDepth(call.args), 2)
    /\ TwiceDepth(call.args) <= 0 =>
         /\ ret = <<None, InvalidDepthError>>
         /\ DOMAIN locals = {"d"}
    /\ TwiceDepth(call.args) > 0 =>
         /\ ret[1] # None
         /\ ret[2] = None
         /\ ret[1].d_mm = locals.d
    /\ ret[1] # None => FGt(ret[1].d_mm, FZero)
    /\ (ret[1] = None) # (ret[2] = None)

\* a call with d = 0 exactly has returned the error
DepthZeroRejected ==
  /\ Returned("calculate")
  /\ TwiceDepth(call.args) = 0
  /\ ret = <<None, InvalidDepthError>>

\* C2: in every successful evaluation xu <= 0.48*d and
\* Mu <= 0.138*fck*b*d^2, and Mu_kNm is Mu/1e6.
FlexureBounds ==
  Succeeded =>
    /\ FLe(locals.xu, FMul[F048, locals.d])
    /\ FLe(locals.Mu,
           FMul[FMul[FMul[F0138, FromInt[call.args.fck]], FromInt[call.args.b]],
                FMul[locals.d, locals.d]])
    /\ ret[1].Mu_kNm = FDiv[locals.Mu, FromInt[1000000]]

\* an evaluation whose neutral axis, above 0.48*d, was clamped to it
NeutralAxisClamped ==
  /\ Succeeded
  /\ FGt(NeutralAxis(call.args.fy, locals.Ast, call.args.fck, call.args.b),
         FMul[F048, locals.d])
  /\ locals.xu = FMul[F048, locals.d]

\* C3: in every successful evaluation W_shear = 2*(Vc + Vs), Wu is the
\* smaller of W_flex and W_shear, Wu_kN_gross is Wu/1000, and Wu_kN_gross
\* exceeds neither W_flex/1000 nor W_shear/1000.
GoverningMinimum ==
  Succeeded =>
    /\ locals.W_shear = FMul[FromInt[2], FAdd[locals.Vc, locals.Vs]]
    /\ locals.Wu \in {locals.W_flex, locals.W_shear}
    /\ FLe(locals.Wu, locals.W_flex)
    /\ FLe(locals.Wu, locals.W_shear)
    /\ ret[1].Wu_kN_gross = FDiv[locals.Wu, F1000]
    /\ FLe(ret[1].Wu_kN_gross, FDiv[locals.W_flex, F1000])
    /\ FLe(ret[1].Wu_kN_gross, FDiv[locals.W_shear, F1000])

\* an evaluation governed by shear
ShearGoverns ==
  /\ Succeeded
  /\ FLt(locals.W_shear, locals.W_flex)
  /\ locals.Wu = locals.W_shear

\* mode m is the class of the loads (x, y) under the 10% band
InBand(m, x, y) ==
  /\ m \in {"Flexural", "Shear", "Combined"}
  /\ FLt(x, FMul[F09, y]) => m = "Flexural"
  /\ FLt(y, FMul[F09, x]) => m = "Shear"
  /\ (~FLt(x, FMul[F09, y]) /\ ~FLt(y, FMul[F09, x])) => m = "Combined"

\* exchanging the loads exchanges Flexural and Shear and keeps Combined
SwapSymmetric(x, y) ==
  /\ FailureMode(x, y) = "Flexural" <=> FailureMode(y, x) = "Shear"
  /\ FailureMode(x, y) = "Shear" <=> FailureMode(y, x) = "Flexural"
  /\ FailureMode(x, y) = "Combined" <=> FailureMode(y, x) = "Combined"

TcContract ==
  Returned("get_tc") =>
    /\ prev # None => FLe(prev, ret)
    /\ FLe(get_tc(Lit(15, 100), call.fck), ret)
    /\ FLe(ret, get_tc(FromInt[1], call.fck))
    /\ FLt(call.pt, Lit(15, 100)) => ret = get_tc(Lit(15, 100), call.fck)
    /\ FGt(call.pt, FromInt[1]) => ret = get_tc(FromInt[1], call.fck)
    /\ \A i \in 1..5 :
         call.pt = Lit(pt_range_100[i], 100) =>
           ret = Lit(tc_table_100[call.fck][i], 100)

\* get_tc has returned an interpolated value strictly between two
\* tabulated ones, above the value one step of pt before
TcInterpolated ==
  /\ Returned("get_tc")
  /\ prev # None
  /\ FLt(prev, ret)
  /\ FLt(Lit(tc_table_100[call.fck][2], 100), ret)
  /\ FLt(ret, Lit(tc_table_100[call.fck][3], 100))

\* C6: in every successful evaluation the warnings hold the shear warning
\* iff tau_v > tc_max[fck] and the self-weight warning iff Wu_kN_net <= 0,
\* and nothing when neither holds; neither is an error: the call returns
\* the complete result with error None whenever d > 0.
WarningContract ==
  /\ Returned("calculate") /\ FGt(locals.d, FZero) => ret[2] = None
  /\ Succeeded =>
       /\ DOMAIN ret[1] = ResultKeys
       /\ ShearWarning \in Range(ret[1].warnings)
            <=> FGt(ret[1].tau_v, tc_max[call.args.fck])
       /\ SelfWeightWarning \in Range(ret[1].warnings)
            <=> FLe(ret[1].Wu_kN_net, FZero)
       /\ (~FGt(ret[1].tau_v, tc_max[call.args.fck])
             /\ ~FLe(ret[1].Wu_kN_net, FZero)) => ret[1].warnings = <<>>

\* a result with a non-positive net load carries the self-weight warning
SelfWeightWarned ==
  /\ Succeeded
  /\ FLe(ret[1].Wu_kN_net, FZero)
  /\ ret[1].warnings = <<SelfWeightWarning>>

\* the value v is a numeric field of the returned dictionary
Carries(v) ==
  \E k \in DOMAIN ret[1] \ {"mode", "warnings"} : ret[1][k] = v

\* C7: every result of a successful calculate carries all the listed
\* fields: d, pt, xu, Mu, the flexural-limited load, tau_v, tau_c,
\* tau_c_max, Vu, the shear-limited load, the gross and the net governing
\* load, the failure mode and the warning list (loads and Vu in N or in kN,
\* Mu in Nmm or in kNm).
CarriesAllFields ==
  Succeeded =>
    /\ Carries(locals.d)
    /\ Carries(locals.pt)
    /\ Carries(locals.xu)
    /\ Carries(locals.Mu) \/ Carries(FDiv[locals.Mu, FromInt[1000000]])
    /\ \E k \in DOMAIN ret[1] \ {"Wu_kN_gross", "mode", "warnings"} :
         ret[1][k] \in {locals.W_flex, FDiv[locals.W_flex, F1000]}
    /\ Carries(locals.tau_v)
    /\ Carries(locals.tc)
    /\ Carries(locals.tc_lim)
    /\ Carries(locals.Vu) \/ Carries(FDiv[locals.Vu, F1000])
    /\ \E k \in DOMAIN ret[1] \ {"Wu_kN_gross", "mode", "warnings"} :
         ret[1][k] \in {locals.W_shear, FDiv[locals.W_shear, F1000]}
    /\ Carries(FDiv[locals.Wu, F1000])
    /\ Carries(locals.Wu_net)
    /\ "mode" \in DOMAIN ret[1]
    /\ "warnings" \in DOMAIN ret[1]

\* 2^-51, four roundings of one part in 2^53 each
RoundingSlack == [s |-> 1, m |-> <<1>>, e |-> 0 - 51]

F15 == Lit(3, 2)

\* the formulas of W_flex and of the effective span
FlexLoadFormulas ==
  /\ locals.eff_span = FromInt[call.args.L]
  /\ call.args.load_type = "Point Load" =>
       locals.W_flex = FDiv[FMul[FromInt[4], locals.Mu], FromInt[call.args.L]]
  /\ call.args.load_type # "Point Load" =>
       locals.W_flex = FDiv[FMul[FromInt[6], locals.Mu], FromInt[call.args.L]]

\* C8 as amended: in every successful evaluation W_flex = 4*Mu/span for
\* "Point Load" and 6*Mu/span otherwise, the span min(L + d, L) is L, and
\* the two-point W_flex is 1.5 times the single-point one of the same beam
\* up to floating-point rounding: they differ by at most 2^-51 of it.
FlexLoadContract ==
  Succeeded =>
    /\ FlexLoadFormulas
    /\ prev # None =>
         FLe(FAbs(FSub[locals.W_flex, FMul[F15, prev]]),
             FMul[RoundingSlack, locals.W_flex])

\* the two-point load of a beam has followed its single-point load and is
\* not the float 1.5 * W_flex
TwoPointRounded ==
  /\ Succeeded
  /\ prev # None
  /\ call.args.load_type = "Two Point Load"
  /\ locals.W_flex # FMul[F15, prev]

\* C8 as claimed: the same, with the two-point W_flex exactly 1.5 times the
\* single-point one.
FlexLoadExactlyOneAndAHalf ==
  Succeeded =>
    /\ FlexLoadFormulas
    /\ prev # None => locals.W_flex = FMul[F15, prev]

\* 25 * (b/1000) * (D/1000) * (L/1000)
SelfWeightOf(a) ==
  FMul[FMul[FMul[FromInt[25], FDiv[FromInt[a.b], F1000]],
            FDiv[FromInt[a.D], F1000]],
       FDiv[FromInt[a.L], F1000]]

\* C9: every successful evaluation reports gross and net load with
\* Wu_kN_net = Wu_kN_gross - 25*(b/1000)*(D/1000)*(L/1000), the gross load
\* being Wu/1000; the net load is below the gross load, and a net load
\* <= 0 is returned as a result, not as an error.
NetContract ==
  Succeeded =>
    /\ {"Wu_kN_gross", "Wu_kN_net"} \subseteq DOMAIN ret[1]
    /\ ret[1].Wu_kN_gross = FDiv[locals.Wu, F1000]
    /\ ret[1].Wu_kN_net = FSub[ret[1].Wu_kN_gross, SelfWeightOf(call.args)]
    /\ FLt(ret[1].Wu_kN_net, ret[1].Wu_kN_gross)

\* a result whose net load is negative
NetNegativeReturned ==
  /\ Succeeded
  /\ FLt(ret[1].Wu_kN_net, FZero)
  /\ FGt(ret[1].Wu_kN_gross, FZero)

\* for positive loads (x, y), governing load w and mode m: Flexural means
\* x governs, Shear means y governs, the two strict conditions exclude each
\* other, and testing them in the other order gives the same mode
Agrees(m, w, x, y) ==
  /\ m = "Flexural" => (w = x /\ FLt(x, y))
  /\ m = "Shear" => (w = y /\ FLt(y, x))
  /\ ~(FLt(x, FMul[F09, y]) /\ FLt(y, FMul[F09, x]))
  /\ m = (IF FLt(y, FMul[F09, x]) THEN "Shear"
          ELSE IF FLt(x, FMul[F09, y]) THEN "Flexural"
          ELSE "Combined")

\* C10: in every successful evaluation with positive W_flex and W_shear the
\* mode agrees with the governing load (Flexural: Wu = W_flex < W_shear;
\* Shear: Wu = W_shear < W_flex), and W_flex < 0.9*W_shear and
\* W_shear < 0.9*W_flex never hold together, so the order of the if/elif
\* does not matter.
ModeAgreesWithGoverning ==
  /\ (Succeeded /\ FGt(locals.W_flex, FZero) /\ FGt(locals.W_shear, FZero)) =>
       Agrees(ret[1].mode, locals.Wu, locals.W_flex, locals.W_shear)
  /\ (Returned("mode") /\ FGt(call.W_flex, FZero) /\ FGt(call.W_shear, FZero)) =>
       Agrees(ret, GoverningLoad(call.W_flex, call.W_shear),
              call.W_flex, call.W_shear)

\* an evaluation of mode Shear, with positive loads
ShearModeReturned ==
  /\ Succeeded
  /\ FGt(locals.W_shear, FZero)
  /\ ret[1].mode = "Shear"
  /\ ret[1].Wu_kN_gross = FDiv[locals.W_shear, F1000]

====
